---- MODULE Spec2Model ----
(***************************************************************************)
(* PM scheduling and completion engine of AIT_CMMS_REV3.py.                *)
(*                                                                         *)
(* Dates are day numbers: day 0 is Monday 2024-01-01, and Iso(y, m, d) is  *)
(* the day number of the canonical string y-m-d.  Every date string the    *)
(* model handles is a valid canonical YYYY-MM-DD string, on which SQLite's *)
(* DATE(d, '+n days'), Python's timedelta and the string comparisons of    *)
(* the queries are day-number arithmetic.                                  *)
(* Equipment ids are modelled by their numeric suffix (E-0100 is 100).     *)
(* Table columns that no modelled statement reads (descriptions, notes,    *)
(* pm_due_date, next_annual_pm_date, timestamps) are left out of the rows. *)
(***************************************************************************)
EXTENDS Integers, Sequences, FiniteSets, TLC

VARIABLES
    equipment,              \* equipment table: bfm_equipment_no -> row
    pm_completions,         \* pm_completions table, in rowid order
    weekly_pm_schedules,    \* weekly_pm_schedules table, in rowid order
    cannot_find_assets,     \* cannot_find_assets table, in rowid order
    run_to_failure_assets,  \* run_to_failure_assets table, in rowid order
    next_annual_pm_var,     \* "Next Annual PM Date" entry of the completion form
    today,                  \* datetime.now(), as a day number
    technicians,            \* self.technicians, the roster in its order
    weekly_pm_target,       \* self.weekly_pm_target
    rollback_journal,       \* self.conn's open transaction: <<>> when there is none, else
                            \* <<the weekly_pm_schedules table a ROLLBACK returns to>>
    clients,                \* the other application instances on the same database
                            \* file: for each, where it is in its handler and
                            \* what it holds
    result                  \* what the last handler did and reported

vars == <<equipment, pm_completions, weekly_pm_schedules, cannot_find_assets,
          run_to_failure_assets, next_annual_pm_var, today, technicians,
          weekly_pm_target, rollback_journal, clients, result>>

----------------------------------------------------------------------------
(* Bounds and input sets *)

NULL == -1                  \* SQL NULL / empty form field

MaxCompletions == 2         \* rows of pm_completions the model lets in
MaxAssetReports == 1        \* rows of cannot_find_assets, of run_to_failure_assets

KnownEquipment == {30, 100} \* bfm_equipment_no values of the catalog
UnknownEquipment == 5 + 2   \* an id that is not in the equipment table

IsLeap(y) == y % 4 = 0 /\ (y % 100 # 0 \/ y % 400 = 0)

RECURSIVE DaysBeforeYear(_)
DaysBeforeYear(y) ==
    IF y <= 2024 THEN 0
    ELSE DaysBeforeYear(y - 1) + (IF IsLeap(y - 1) THEN 366 ELSE 365)

DaysBeforeMonth(y, m) ==
    <<0, 31, 59, 90, 120, 151, 181, 212, 243, 273, 304, 334>>[m]
    + (IF m > 2 /\ IsLeap(y) THEN 1 ELSE 0)

\* day number of the date string y-m-d
Iso(y, m, d) == DaysBeforeYear(y) + DaysBeforeMonth(y, m) + (d - 1)

StartDay == Iso(2025, 3, 3) \* the clock at start, a Monday
LaborHours == 60 + 30       \* labor time of a report: 1 h 30 min, in minutes

NormalPmTypes == {"Monthly", "Six Month", "Annual"}
PmTypes == NormalPmTypes \cup {"CANNOT FIND", "Run to Failure"}

\* no handler assigns the roster or the weekly target after construction
Settings == <<technicians, weekly_pm_target>>

----------------------------------------------------------------------------
(* Small helpers over tables *)

Range(s) == {s[i] : i \in DOMAIN s}

Min(a, b) == IF a < b THEN a ELSE b

DB == [equipment |-> equipment,
       pm_completions |-> pm_completions,
       weekly_pm_schedules |-> weekly_pm_schedules,
       cannot_find_assets |-> cannot_find_assets,
       run_to_failure_assets |-> run_to_failure_assets]

DateAdd(d, n) == IF d = NULL THEN NULL ELSE d + n

get_week_start(date) == date - (date % 7)

LastField(pm_type) ==
    CASE pm_type = "Monthly" -> "last_monthly_pm"
      [] pm_type = "Six Month" -> "last_six_month_pm"
      [] pm_type = "Annual" -> "last_annual_pm"

NextField(pm_type) ==
    CASE pm_type = "Monthly" -> "next_monthly_pm"
      [] pm_type = "Six Month" -> "next_six_month_pm"
      [] pm_type = "Annual" -> "next_annual_pm"

----------------------------------------------------------------------------
(* Conflict validator: validate_pm_completion *)

\* faulty variant, for sensitivity of the properties: the lookup misses every key and falls back to the default
min_days_default_only(pm_type) == 7

min_days(pm_type) ==
    CASE pm_type = "Monthly" -> 25
      [] pm_type = "Six Month" -> 150
      [] pm_type = "Annual" -> 300
      [] OTHER -> 7

Issue(kind, date, technician, days) ==
    [kind |-> kind, date |-> date, technician |-> technician, days |-> days]

\* rows of: SELECT ... FROM pm_completions WHERE bfm_equipment_no = ? AND pm_type = ?
SameTypeCompletions(db, bfm_no, pm_type) ==
    {i \in DOMAIN db.pm_completions :
        /\ db.pm_completions[i].bfm_equipment_no = bfm_no
        /\ db.pm_completions[i].pm_type = pm_type}

\* the rows ORDER BY completion_date DESC LIMIT 1 may return (0: no row);
\* SQLite leaves the order among equal completion dates open
RecentCompletions(db, bfm_no, pm_type) ==
    LET rows == SameTypeCompletions(db, bfm_no, pm_type)
        newest == {i \in rows : \A j \in rows :
                      db.pm_completions[j].completion_date
                          <= db.pm_completions[i].completion_date}
    IN  IF rows = {} THEN {0} ELSE newest

\* Check 1: same PM type completed recently for this equipment
CheckRecentDuplicate(db, recent, pm_type, completion_date) ==
    IF recent = 0 THEN {}
    ELSE LET last_completion_date == db.pm_completions[recent].completion_date
             last_technician == db.pm_completions[recent].technician_name
             days_since == completion_date - last_completion_date
             threshold == min_days(pm_type)
         IN  IF days_since < threshold
             THEN {Issue("DUPLICATE", last_completion_date, last_technician, days_since)}
             ELSE {}

\* Check 2: same technician completing same equipment too frequently
CheckSameTechnician(db, bfm_no, technician, completion_date) ==
    LET recent_count ==
            Cardinality({i \in DOMAIN db.pm_completions :
                /\ db.pm_completions[i].bfm_equipment_no = bfm_no
                /\ db.pm_completions[i].technician_name = technician
                /\ db.pm_completions[i].completion_date >= DateAdd(completion_date, -7)})
    IN  IF recent_count > 0 THEN {Issue("SAME_TECHNICIAN", NULL, technician, NULL)} ELSE {}

\* Check 3: equipment exists and is active
CheckEquipment(db, bfm_no, pm_type) ==
    IF bfm_no \notin DOMAIN db.equipment
    THEN {Issue("NOT_FOUND", NULL, NULL, NULL)}
    ELSE IF /\ db.equipment[bfm_no].status \in {"Missing", "Run to Failure"}
            /\ pm_type \notin {"CANNOT FIND", "Run to Failure"}
         THEN {Issue("STATUS", NULL, NULL, NULL)}
         ELSE {}

\* Check 4: scheduled PM exists for this week
CheckScheduled(db, bfm_no, pm_type, technician, completion_date) ==
    LET current_week_start == get_week_start(completion_date)
        scheduled_count ==
            Cardinality({i \in DOMAIN db.weekly_pm_schedules :
                /\ db.weekly_pm_schedules[i].bfm_equipment_no = bfm_no
                /\ db.weekly_pm_schedules[i].pm_type = pm_type
                /\ db.weekly_pm_schedules[i].assigned_technician = technician
                /\ db.weekly_pm_schedules[i].week_start_date = current_week_start})
    IN  IF scheduled_count = 0 /\ pm_type \in {"Monthly", "Annual"}
        THEN {Issue("NOT_SCHEDULED", NULL, NULL, NULL)}
        ELSE {}

validate_pm_completion(db, recent, bfm_no, pm_type, technician, completion_date) ==
    LET issues == CheckRecentDuplicate(db, recent, pm_type, completion_date)
                  \cup CheckSameTechnician(db, bfm_no, technician, completion_date)
                  \cup CheckEquipment(db, bfm_no, pm_type)
                  \cup CheckScheduled(db, bfm_no, pm_type, technician, completion_date)
    IN  [valid |-> issues = {}, issues |-> issues]

----------------------------------------------------------------------------
(* Completion transaction processor *)

\* numeric suffix of the id, mod 61, minus 30
OffsetDays(bfm_no) == (bfm_no % 61) - 30

\* the next annual date the form computes when the field is blank
AutoNextAnnualPm(bfm_no, pm_type, completion_date, next_annual_pm) ==
    IF next_annual_pm = NULL /\ pm_type = "Annual"
    THEN completion_date + 365 + OffsetDays(bfm_no)
    ELSE next_annual_pm

\* faulty variant, for sensitivity of the properties: the last and the next column are swapped
UpdateEquipmentDates_swapped(eq, bfm_no, pm_type, completion_date, next_annual_pm) ==
    IF bfm_no \notin DOMAIN eq THEN eq
    ELSE CASE pm_type = "Monthly" ->
                [eq EXCEPT ![bfm_no].next_monthly_pm = completion_date,
                           ![bfm_no].last_monthly_pm = DateAdd(completion_date, 30)]
           [] pm_type = "Six Month" ->
                [eq EXCEPT ![bfm_no].next_six_month_pm = completion_date,
                           ![bfm_no].last_six_month_pm = DateAdd(completion_date, 180)]
           [] pm_type = "Annual" ->
                [eq EXCEPT ![bfm_no].next_annual_pm = completion_date,
                           ![bfm_no].last_annual_pm = DateAdd(completion_date, 365)]

\* faulty variant, for sensitivity of the properties: the next dates are a calendar month and half a year of 31-day months
UpdateEquipmentDates_31(eq, bfm_no, pm_type, completion_date, next_annual_pm) ==
    IF bfm_no \notin DOMAIN eq THEN eq
    ELSE CASE pm_type = "Monthly" ->
                [eq EXCEPT ![bfm_no].last_monthly_pm = completion_date,
                           ![bfm_no].next_monthly_pm = DateAdd(completion_date, 31)]
           [] pm_type = "Six Month" ->
                [eq EXCEPT ![bfm_no].last_six_month_pm = completion_date,
                           ![bfm_no].next_six_month_pm = DateAdd(completion_date, 186)]
           [] pm_type = "Annual" ->
                [eq EXCEPT ![bfm_no].last_annual_pm = completion_date,
                           ![bfm_no].next_annual_pm = DateAdd(completion_date, 365)]

\* UPDATE equipment SET ... WHERE bfm_equipment_no = ?  (rows it changes)
UpdateEquipmentDates(eq, bfm_no, pm_type, completion_date, next_annual_pm) ==
    IF bfm_no \notin DOMAIN eq THEN eq
    ELSE CASE pm_type = "Monthly" ->
                IF next_annual_pm # NULL
                THEN [eq EXCEPT ![bfm_no].last_monthly_pm = completion_date,
                                ![bfm_no].next_monthly_pm = DateAdd(completion_date, 30),
                                ![bfm_no].next_annual_pm = next_annual_pm]
                ELSE [eq EXCEPT ![bfm_no].last_monthly_pm = completion_date,
                                ![bfm_no].next_monthly_pm = DateAdd(completion_date, 30)]
           [] pm_type = "Six Month" ->
                [eq EXCEPT ![bfm_no].last_six_month_pm = completion_date,
                           ![bfm_no].next_six_month_pm = DateAdd(completion_date, 180)]
           [] pm_type = "Annual" ->
                [eq EXCEPT ![bfm_no].last_annual_pm = completion_date,
                           ![bfm_no].next_annual_pm = DateAdd(completion_date, 365)]

\* faulty variant, for sensitivity of the properties: the WHERE clause leaves out the technician
CloseScheduleEntries_any_technician(schedules, bfm_no, pm_type, technician, completion_date, labor) ==
    LET current_week_start == get_week_start(completion_date)
        Close(row) ==
            IF /\ row.bfm_equipment_no = bfm_no
               /\ row.pm_type = pm_type
               /\ row.week_start_date = current_week_start
               /\ row.status = "Scheduled"
            THEN [row EXCEPT !.status = "Completed",
                             !.completion_date = completion_date,
                             !.labor_hours = labor]
            ELSE row
    IN  [i \in DOMAIN schedules |-> Close(schedules[i])]

\* UPDATE weekly_pm_schedules SET status = 'Completed', ... WHERE ... AND status = 'Scheduled'
CloseScheduleEntries(schedules, bfm_no, pm_type, technician, completion_date, labor) ==
    LET current_week_start == get_week_start(completion_date)
        Close(row) ==
            IF /\ row.bfm_equipment_no = bfm_no
               /\ row.pm_type = pm_type
               /\ row.assigned_technician = technician
               /\ row.week_start_date = current_week_start
               /\ row.status = "Scheduled"
            THEN [row EXCEPT !.status = "Completed",
                             !.completion_date = completion_date,
                             !.labor_hours = labor]
            ELSE row
    IN  [i \in DOMAIN schedules |-> Close(schedules[i])]

\* faulty variant, for sensitivity of the properties: the rowcount of the equipment update is not checked
process_normal_pm_completion_unchecked(db, bfm_no, pm_type, technician, completion_date, labor, next_annual_pm) ==
    LET inserted == [db EXCEPT !.pm_completions = Append(@,
                        [bfm_equipment_no |-> bfm_no,
                         pm_type |-> pm_type,
                         technician_name |-> technician,
                         completion_date |-> completion_date,
                         labor |-> labor])]
        updated == [inserted EXCEPT !.equipment =
                        UpdateEquipmentDates(@, bfm_no, pm_type, completion_date,
                                             next_annual_pm)]
        closed == [updated EXCEPT !.weekly_pm_schedules =
                        CloseScheduleEntries(@, bfm_no, pm_type, technician,
                                             completion_date, labor)]
    IN  [success |-> TRUE, db |-> closed]

\* returns whether it succeeded and the tables as the open transaction sees them
process_normal_pm_completion(db, bfm_no, pm_type, technician, completion_date, labor, next_annual_pm) ==
    LET inserted == [db EXCEPT !.pm_completions = Append(@,
                        [bfm_equipment_no |-> bfm_no,
                         pm_type |-> pm_type,
                         technician_name |-> technician,
                         completion_date |-> completion_date,
                         labor |-> labor])]
        affected_rows == IF bfm_no \in DOMAIN db.equipment THEN 1 ELSE 0
        updated == [inserted EXCEPT !.equipment =
                        UpdateEquipmentDates(@, bfm_no, pm_type, completion_date,
                                             next_annual_pm)]
        closed == [updated EXCEPT !.weekly_pm_schedules =
                        CloseScheduleEntries(@, bfm_no, pm_type, technician,
                                             completion_date, labor)]
    IN  IF affected_rows # 1
        THEN [success |-> FALSE, db |-> updated]
        ELSE [success |-> TRUE, db |-> closed]

\* faulty variant, for sensitivity of the properties: the equipment update is the one of Run to Failure, with the other status
process_cannot_find_pm_disabling(db, bfm_no, technician, completion_date) ==
    LET inserted == [db EXCEPT !.cannot_find_assets = Append(@,
                        [bfm_equipment_no |-> bfm_no,
                         technician_name |-> technician,
                         report_date |-> completion_date,
                         status |-> "Missing"])]
        affected_rows == IF bfm_no \in DOMAIN db.equipment THEN 1 ELSE 0
        updated == IF bfm_no \in DOMAIN db.equipment
                   THEN [inserted EXCEPT !.equipment[bfm_no].status = "Missing",
                                         !.equipment[bfm_no].monthly_pm = FALSE,
                                         !.equipment[bfm_no].six_month_pm = FALSE,
                                         !.equipment[bfm_no].annual_pm = FALSE]
                   ELSE inserted
    IN  [success |-> affected_rows = 1, db |-> updated]

process_cannot_find_pm(db, bfm_no, technician, completion_date) ==
    LET inserted == [db EXCEPT !.cannot_find_assets = Append(@,
                        [bfm_equipment_no |-> bfm_no,
                         technician_name |-> technician,
                         report_date |-> completion_date,
                         status |-> "Missing"])]
        affected_rows == IF bfm_no \in DOMAIN db.equipment THEN 1 ELSE 0
        updated == IF bfm_no \in DOMAIN db.equipment
                   THEN [inserted EXCEPT !.equipment[bfm_no].status = "Missing"]
                   ELSE inserted
    IN  [success |-> affected_rows = 1, db |-> updated]

process_run_to_failure_pm(db, bfm_no, technician, completion_date, total_hours) ==
    LET inserted == [db EXCEPT !.run_to_failure_assets = Append(@,
                        [bfm_equipment_no |-> bfm_no,
                         technician_name |-> technician,
                         completion_date |-> completion_date,
                         labor_hours |-> total_hours])]
        affected_rows == IF bfm_no \in DOMAIN db.equipment THEN 1 ELSE 0
        updated == IF bfm_no \in DOMAIN db.equipment
                   THEN [inserted EXCEPT !.equipment[bfm_no].status = "Run to Failure",
                                         !.equipment[bfm_no].monthly_pm = FALSE,
                                         !.equipment[bfm_no].six_month_pm = FALSE,
                                         !.equipment[bfm_no].annual_pm = FALSE]
                   ELSE inserted
    IN  [success |-> affected_rows = 1, db |-> updated]

\* faulty variant, for sensitivity of the properties: a failed transaction is left without ROLLBACK and a later commit keeps it
Transaction_no_rollback(db, processed) == processed.db

\* BEGIN TRANSACTION ... COMMIT on success, ROLLBACK otherwise
Transaction(db, processed) ==
    IF processed.success THEN processed.db ELSE db

verify_pm_completion_saved(db, bfm_no, pm_type, technician, completion_date) ==
    LET completion_record ==
            {i \in DOMAIN db.pm_completions :
                /\ db.pm_completions[i].bfm_equipment_no = bfm_no
                /\ db.pm_completions[i].pm_type = pm_type
                /\ db.pm_completions[i].technician_name = technician
                /\ db.pm_completions[i].completion_date = completion_date}
        dates_ok ==
            \/ pm_type \notin NormalPmTypes
            \/ bfm_no \notin DOMAIN db.equipment
            \/ db.equipment[bfm_no][LastField(pm_type)] = completion_date
        current_week_start == get_week_start(completion_date)
        scheduled ==
            {i \in DOMAIN db.weekly_pm_schedules :
                /\ db.weekly_pm_schedules[i].bfm_equipment_no = bfm_no
                /\ db.weekly_pm_schedules[i].pm_type = pm_type
                /\ db.weekly_pm_schedules[i].assigned_technician = technician
                /\ db.weekly_pm_schedules[i].week_start_date = current_week_start}
        first == CHOOSE i \in scheduled : \A j \in scheduled : i <= j
        schedule_ok ==
            \/ scheduled = {}
            \/ db.weekly_pm_schedules[first].status = "Completed"
    IN  completion_record # {} /\ dates_ok /\ schedule_ok


----------------------------------------------------------------------------
(* What a handler reports *)

Report(op, bfm_no, pm_type, technician, completion_date, validation, outcome, output) ==
    [op |-> op, bfm_no |-> bfm_no, pm_type |-> pm_type, technician |-> technician,
     completion_date |-> completion_date, valid |-> validation.valid,
     issues |-> validation.issues, outcome |-> outcome, output |-> output,
     proceed |-> TRUE]

NoValidation == [valid |-> TRUE, issues |-> {}]

Idle(op) == Report(op, NULL, "", NULL, NULL, NoValidation, "", <<>>)

----------------------------------------------------------------------------
(* submit_pm_completion: the whole handler, from reading the form to the
   message box it ends with *)

\* faulty variant, for sensitivity of the properties: the answer to the prompt is not looked at
Proceeds_whatever_the_answer(validation_result, response) == TRUE

\* the handler goes on to the transaction: the report is valid, or the user
\* answered yes to "Do you want to proceed anyway?"
Proceeds(validation_result, response) ==
    validation_result.valid \/ response

submit_pm_completion(bfm_no, pm_type, technician, pm_due_date, response) ==
    \E recent \in RecentCompletions(DB, bfm_no, pm_type) :
      LET completion_date == IF pm_due_date # NULL THEN pm_due_date ELSE today
          validation_result == validate_pm_completion(DB, recent, bfm_no, pm_type,
                                                      technician, completion_date)
          next_annual_pm == AutoNextAnnualPm(bfm_no, pm_type, completion_date,
                                             next_annual_pm_var)
          processed ==
              CASE pm_type = "CANNOT FIND" ->
                      process_cannot_find_pm(DB, bfm_no, technician, completion_date)
                [] pm_type = "Run to Failure" ->
                      process_run_to_failure_pm(DB, bfm_no, technician, completion_date,
                                                LaborHours)
                [] OTHER ->
                      process_normal_pm_completion(DB, bfm_no, pm_type, technician,
                                                   completion_date, LaborHours,
                                                   next_annual_pm)
          after == Transaction(DB, processed)
          verified == verify_pm_completion_saved(after, bfm_no, pm_type, technician,
                                                 completion_date)
          outcome == IF ~processed.success THEN "rolled_back"
                     ELSE IF verified THEN "verified" ELSE "verification_failed"
          \* what the user was shown and answered (no prompt for a valid report)
          proceed == validation_result.valid \/ response
      IN  IF ~Proceeds(validation_result, response)
          THEN /\ result' = [Report("submit", bfm_no, pm_type, technician,
                                    completion_date, validation_result, "cancelled",
                                    <<>>) EXCEPT !.proceed = proceed]
               /\ UNCHANGED <<equipment, pm_completions, weekly_pm_schedules,
                              cannot_find_assets, run_to_failure_assets,
                              next_annual_pm_var, today, Settings, clients, rollback_journal>>
          ELSE IF rollback_journal # <<>>
          \* BEGIN TRANSACTION inside the transaction a failed generation left
          \* open raises OperationalError; the handler's ROLLBACK ends that one
          THEN /\ weekly_pm_schedules' = rollback_journal[1]
               /\ rollback_journal' = <<>>
               /\ next_annual_pm_var' = next_annual_pm
               /\ result' = [Report("submit", bfm_no, pm_type, technician,
                                    completion_date, validation_result, "rolled_back",
                                    <<>>) EXCEPT !.proceed = proceed]
               /\ UNCHANGED <<equipment, pm_completions, cannot_find_assets,
                              run_to_failure_assets, today, Settings, clients>>
          ELSE /\ Len(after.pm_completions) <= MaxCompletions
               /\ Len(after.cannot_find_assets) <= MaxAssetReports
               /\ Len(after.run_to_failure_assets) <= MaxAssetReports
               /\ equipment' = after.equipment
               /\ pm_completions' = after.pm_completions
               /\ weekly_pm_schedules' = after.weekly_pm_schedules
               /\ cannot_find_assets' = after.cannot_find_assets
               /\ run_to_failure_assets' = after.run_to_failure_assets
               \* clear_completion_form runs only after a verified save
               /\ next_annual_pm_var' = IF outcome = "verified" THEN NULL
                                        ELSE next_annual_pm
               /\ result' = [Report("submit", bfm_no, pm_type, technician,
                                    completion_date, validation_result, outcome,
                                    <<>>) EXCEPT !.proceed = proceed]
               /\ UNCHANGED <<today, Settings, clients, rollback_journal>>

----------------------------------------------------------------------------
(* submit_pm_completion in application instances that share the database
   file.  Each instance has its own connection and its own form.  The handler
   reads and validates in autocommit mode, so it holds no lock from its last
   SELECT to its BEGIN TRANSACTION; SQLite runs the transactions themselves
   one after the other. *)

Clients == {1, 2}

\* an instance between two handlers: its form's "Next Annual PM Date" entry
\* and what its last handler reported
IdleClient(next_annual_pm, last) ==
    [pc |-> "idle", report |-> <<>>, validation |-> NoValidation,
     next_annual_pm_var |-> next_annual_pm, result |-> last]

\* from reading the form to the answer to the prompt
submit_validate(client, bfm_no, pm_type, technician, pm_due_date, response) ==
    /\ clients[client].pc = "idle"
    /\ \E recent \in RecentCompletions(DB, bfm_no, pm_type) :
          LET completion_date == IF pm_due_date # NULL THEN pm_due_date ELSE today
              validation_result == validate_pm_completion(DB, recent, bfm_no, pm_type,
                                                          technician, completion_date)
              next_annual_pm == AutoNextAnnualPm(bfm_no, pm_type, completion_date,
                                                 clients[client].next_annual_pm_var)
              cancelled == Report("submit", bfm_no, pm_type, technician,
                                  completion_date, validation_result, "cancelled", <<>>)
          IN  IF ~Proceeds(validation_result, response)
              THEN /\ clients' = [clients EXCEPT ![client].result =
                                      [cancelled EXCEPT !.proceed = FALSE]]
                   /\ result' = [cancelled EXCEPT !.proceed = FALSE]
              ELSE /\ clients' = [clients EXCEPT
                          ![client].pc = "write",
                          ![client].report = <<bfm_no, pm_type, technician,
                                               completion_date>>,
                          ![client].validation = validation_result,
                          ![client].next_annual_pm_var = next_annual_pm]
                   /\ UNCHANGED result
    /\ UNCHANGED <<equipment, pm_completions, weekly_pm_schedules, cannot_find_assets,
                   run_to_failure_assets, next_annual_pm_var, today, Settings,
                   rollback_journal>>

\* from BEGIN TRANSACTION to the message box the handler ends with
submit_write(client) ==
    /\ clients[client].pc = "write"
    /\ LET bfm_no == clients[client].report[1]
           pm_type == clients[client].report[2]
           technician == clients[client].report[3]
           completion_date == clients[client].report[4]
           next_annual_pm == clients[client].next_annual_pm_var
           processed ==
               CASE pm_type = "CANNOT FIND" ->
                       process_cannot_find_pm(DB, bfm_no, technician, completion_date)
                 [] pm_type = "Run to Failure" ->
                       process_run_to_failure_pm(DB, bfm_no, technician,
                                                 completion_date, LaborHours)
                 [] OTHER ->
                       process_normal_pm_completion(DB, bfm_no, pm_type, technician,
                                                    completion_date, LaborHours,
                                                    next_annual_pm)
           after == Transaction(DB, processed)
           verified == verify_pm_completion_saved(after, bfm_no, pm_type, technician,
                                                  completion_date)
           outcome == IF ~processed.success THEN "rolled_back"
                      ELSE IF verified THEN "verified" ELSE "verification_failed"
           report == Report("submit", bfm_no, pm_type, technician, completion_date,
                            clients[client].validation, outcome, <<>>)
       IN  /\ Len(after.pm_completions) <= MaxCompletions
           /\ Len(after.cannot_find_assets) <= MaxAssetReports
           /\ Len(after.run_to_failure_assets) <= MaxAssetReports
           /\ equipment' = after.equipment
           /\ pm_completions' = after.pm_completions
           /\ weekly_pm_schedules' = after.weekly_pm_schedules
           /\ cannot_find_assets' = after.cannot_find_assets
           /\ run_to_failure_assets' = after.run_to_failure_assets
           /\ clients' = [clients EXCEPT ![client] =
                             IdleClient(IF outcome = "verified" THEN NULL
                                        ELSE next_annual_pm, report)]
           /\ result' = report
    /\ UNCHANGED <<next_annual_pm_var, today, Settings, rollback_journal>>

----------------------------------------------------------------------------
(* Weekly assignment generator *)

\* days_since >= frequency_days * 0.8
is_pm_overdue(last_pm_date, frequency_days, now) ==
    IF last_pm_date = NULL THEN TRUE
    ELSE (now - last_pm_date) * 10 >= frequency_days * 8

\* faulty variant, for sensitivity of the properties: the annual test comes first
AssignedPm_annual_first(row, now) ==
    IF row.annual_pm /\ (row.last_annual_pm = NULL
                         \/ is_pm_overdue(row.last_annual_pm, 365, now))
    THEN "Annual"
    ELSE IF row.monthly_pm /\ (row.last_monthly_pm = NULL
                               \/ is_pm_overdue(row.last_monthly_pm, 30, now))
         THEN "Monthly"
         ELSE ""

\* faulty variant, for sensitivity of the properties: the enabled flags of the cycles are not consulted
AssignedPm_ignoring_flags(row, now) ==
    IF row.last_monthly_pm = NULL \/ is_pm_overdue(row.last_monthly_pm, 30, now)
    THEN "Monthly"
    ELSE IF row.last_annual_pm = NULL \/ is_pm_overdue(row.last_annual_pm, 365, now)
         THEN "Annual"
         ELSE ""

\* the PM type the loop assigns to one equipment row ("" for none)
AssignedPm(row, now) ==
    IF row.monthly_pm /\ (row.last_monthly_pm = NULL
                          \/ is_pm_overdue(row.last_monthly_pm, 30, now))
    THEN "Monthly"
    ELSE IF /\ row.annual_pm
            /\ (row.last_annual_pm = NULL \/ is_pm_overdue(row.last_annual_pm, 365, now))
            /\ (~row.monthly_pm
                \/ (row.last_monthly_pm # NULL
                    /\ ~is_pm_overdue(row.last_monthly_pm, 30, now)))
         THEN "Annual"
         ELSE ""

RECURSIVE SortedSeq(_)
SortedSeq(S) ==
    IF S = {} THEN <<>>
    ELSE LET least == CHOOSE x \in S : \A y \in S : x <= y
         IN  <<least>> \o SortedSeq(S \ {least})

\* faulty variant, for sensitivity of the properties: the query has no WHERE clause
ActiveEquipment_any_status(eq) == SortedSeq(DOMAIN eq)

\* SELECT ... FROM equipment WHERE status = 'Active' ... ORDER BY bfm_equipment_no
ActiveEquipment(eq) ==
    SortedSeq({e \in DOMAIN eq : eq[e].status = "Active"
                                 /\ eq[e].status # "Run to Failure"
                                 /\ eq[e].status # "Missing"})

\* pm_assignments: (bfm_no, assigned_pm) in catalog order, one per equipment
PmAssignments(eq, now) ==
    LET equipment_list == ActiveEquipment(eq)
        picked == SelectSeq(equipment_list, LAMBDA e : AssignedPm(eq[e], now) # "")
    IN  [i \in DOMAIN picked |->
            [bfm_no |-> picked[i], pm_type |-> AssignedPm(eq[picked[i]], now)]]

ScheduleRow(week_start, assignment, technician, assignment_index) ==
    [week_start_date |-> week_start,
     bfm_equipment_no |-> assignment.bfm_no,
     pm_type |-> assignment.pm_type,
     assigned_technician |-> technician,
     status |-> "Scheduled",
     scheduled_date |-> week_start + (assignment_index % 5),
     completion_date |-> NULL,
     labor_hours |-> NULL]

\* faulty variant, for sensitivity of the properties: the extra assignments go to the last
\* technicians of the roster
RECURSIVE Distribute_extra_to_last(_, _, _, _, _)
Distribute_extra_to_last(pm_assignments, week_start, total_pms, tech_index, inserted) ==
    IF tech_index >= Len(technicians) THEN inserted
    ELSE LET pms_per_tech == total_pms \div Len(technicians)
             extra_pms == total_pms % Len(technicians)
             tech_pm_count == pms_per_tech
                 + (IF tech_index >= Len(technicians) - extra_pms THEN 1 ELSE 0)
             taken == Min(tech_pm_count, Len(pm_assignments) - Len(inserted))
             rows == [k \in 1..taken |->
                        ScheduleRow(week_start, pm_assignments[Len(inserted) + k],
                                    technicians[tech_index + 1], Len(inserted) + k - 1)]
         IN  Distribute_extra_to_last(pm_assignments, week_start, total_pms,
                                      tech_index + 1, inserted \o rows)

\* the loop over the roster; inserted holds the rows inserted so far, so
\* assignment_index = Len(inserted)
RECURSIVE Distribute(_, _, _, _, _)
Distribute(pm_assignments, week_start, total_pms, tech_index, inserted) ==
    IF tech_index >= Len(technicians) THEN inserted
    ELSE LET pms_per_tech == total_pms \div Len(technicians)
             extra_pms == total_pms % Len(technicians)
             tech_pm_count == pms_per_tech + (IF tech_index < extra_pms THEN 1 ELSE 0)
             taken == Min(tech_pm_count, Len(pm_assignments) - Len(inserted))
             rows == [k \in 1..taken |->
                        ScheduleRow(week_start, pm_assignments[Len(inserted) + k],
                                    technicians[tech_index + 1], Len(inserted) + k - 1)]
         IN  Distribute(pm_assignments, week_start, total_pms, tech_index + 1,
                        inserted \o rows)

\* faulty variant, for sensitivity of the properties: the comparison of the week is inverted
ClearWeek_other_weeks(schedules, week_start) ==
    SelectSeq(schedules, LAMBDA row : row.week_start_date = week_start)

\* faulty variant, for sensitivity of the properties: the week's existing assignments are not cleared
ClearWeek_nothing(schedules, week_start) == schedules

\* DELETE FROM weekly_pm_schedules WHERE week_start_date = ?
ClearWeek(schedules, week_start) ==
    SelectSeq(schedules, LAMBDA row : row.week_start_date # week_start)

\* failing_insert is the storage's part: 0 when every INSERT succeeds, k when
\* the k-th INSERT of the run raises (the except branch then reports the
\* error; it neither rolls back nor commits)
generate_weekly_assignments(week_start, failing_insert) ==
    LET cleared == ClearWeek(weekly_pm_schedules, week_start)
        pm_assignments == PmAssignments(equipment, today)
        total_pms == Min(weekly_pm_target, Len(pm_assignments))
        inserted == Distribute(pm_assignments, week_start, total_pms, 0, <<>>)
        failed == failing_insert > 0
        written == IF failed THEN SubSeq(inserted, 1, failing_insert - 1)
                   ELSE inserted
    IN  /\ failing_insert <= Len(inserted)
        /\ weekly_pm_schedules' = cleared \o written
        \* the DELETE opens a transaction implicitly; self.conn.commit() ends it
        /\ rollback_journal' = IF ~failed THEN <<>>
                               ELSE IF rollback_journal = <<>>
                                    THEN <<weekly_pm_schedules>>
                                    ELSE rollback_journal
        /\ result' = Report("generate", NULL, "", NULL, week_start, NoValidation,
                            IF failed THEN "failed" ELSE "generated", written)
        /\ UNCHANGED <<equipment, pm_completions, cannot_find_assets,
                       run_to_failure_assets, next_annual_pm_var, today, Settings, clients>>

----------------------------------------------------------------------------
(* Missing and run-to-failure assets *)

\* the selected row of the cannot-find list (assets with status 'Missing')
mark_asset_found(bfm_no) ==
    /\ \E i \in DOMAIN cannot_find_assets :
          /\ cannot_find_assets[i].bfm_equipment_no = bfm_no
          /\ cannot_find_assets[i].status = "Missing"
    /\ cannot_find_assets' =
          [i \in DOMAIN cannot_find_assets |->
              IF cannot_find_assets[i].bfm_equipment_no = bfm_no
              THEN [cannot_find_assets[i] EXCEPT !.status = "Found"]
              ELSE cannot_find_assets[i]]
    /\ equipment' = IF bfm_no \in DOMAIN equipment
                    THEN [equipment EXCEPT ![bfm_no].status = "Active"]
                    ELSE equipment
    \* self.conn.commit() also commits what an open transaction holds
    /\ rollback_journal' = <<>>
    /\ result' = Report("mark_found", bfm_no, "", NULL, NULL, NoValidation, "", <<>>)
    /\ UNCHANGED <<pm_completions, weekly_pm_schedules, run_to_failure_assets,
                   next_annual_pm_var, today, Settings, clients>>

\* the selected row of the run-to-failure list, confirmed by the user
reactivate_asset(bfm_no) ==
    /\ bfm_no \in DOMAIN equipment
    /\ equipment[bfm_no].status = "Run to Failure"
    /\ equipment' = [equipment EXCEPT ![bfm_no].status = "Active",
                                      ![bfm_no].monthly_pm = TRUE,
                                      ![bfm_no].six_month_pm = FALSE,
                                      ![bfm_no].annual_pm = TRUE]
    /\ run_to_failure_assets' =
          SelectSeq(run_to_failure_assets, LAMBDA row : row.bfm_equipment_no # bfm_no)
    /\ rollback_journal' = <<>>
    /\ result' = Report("reactivate", bfm_no, "", NULL, NULL, NoValidation, "", <<>>)
    /\ UNCHANGED <<pm_completions, weekly_pm_schedules, cannot_find_assets,
                   next_annual_pm_var, today, Settings, clients>>

----------------------------------------------------------------------------
(* The user and the clock *)

\* the user types into the "Next Annual PM Date" entry
EditNextAnnualPm(entry) ==
    /\ entry # next_annual_pm_var
    /\ next_annual_pm_var' = entry
    /\ result' = Idle("edit")
    /\ UNCHANGED <<equipment, pm_completions, weekly_pm_schedules, cannot_find_assets,
                   run_to_failure_assets, today, Settings, clients, rollback_journal>>

AdvanceClock(day) ==
    /\ day > today
    /\ today' = day
    /\ result' = Idle("clock")
    /\ UNCHANGED <<equipment, pm_completions, weekly_pm_schedules, cannot_find_assets,
                   run_to_failure_assets, next_annual_pm_var, Settings, clients,
                   rollback_journal>>

----------------------------------------------------------------------------
(* The catalog the engine starts from *)

EquipmentRow(monthly, six_month, annual, lm, ls, la, nm, ns, na) ==
    [monthly_pm |-> monthly, six_month_pm |-> six_month, annual_pm |-> annual,
     last_monthly_pm |-> lm, last_six_month_pm |-> ls, last_annual_pm |-> la,
     next_monthly_pm |-> nm, next_six_month_pm |-> ns, next_annual_pm |-> na,
     status |-> "Active"]

\* never serviced, every cycle enabled
NeverDoneRow == EquipmentRow(TRUE, TRUE, TRUE, NULL, NULL, NULL, NULL, NULL, NULL)

\* last monthly 2025-01-01, last annual 2024-06-01
ServicedRow ==
    EquipmentRow(TRUE, TRUE, TRUE, Iso(2025, 1, 1), NULL, Iso(2024, 6, 1),
                 Iso(2025, 1, 31), NULL, Iso(2025, 6, 1))

\* annual only
AnnualOnlyRow == EquipmentRow(FALSE, FALSE, TRUE, NULL, NULL, NULL, NULL, NULL, NULL)

\* the roster, cut to its first n names
Roster(n) == [i \in 1..n |-> i]

\* the weekly target __init__ sets
DefaultTarget == 110

Catalogs ==
    {[e \in KnownEquipment |-> IF e = 100 THEN r100 ELSE AnnualOnlyRow] :
        r100 \in {NeverDoneRow, ServicedRow}}

Init ==
    /\ equipment \in Catalogs
    /\ pm_completions = <<>>
    /\ weekly_pm_schedules = <<>>
    /\ cannot_find_assets = <<>>
    /\ run_to_failure_assets = <<>>
    /\ next_annual_pm_var = NULL
    /\ today = StartDay
    /\ technicians = Roster(2)
    /\ weekly_pm_target = DefaultTarget
    /\ rollback_journal = <<>>
    /\ clients = [client \in Clients |-> IdleClient(NULL, Idle("init"))]
    /\ result = Idle("init")

----------------------------------------------------------------------------
(* The completion processor: reports for one known equipment in every normal
   cycle, by both technicians, dated today (blank entry), 2025-02-01 and
   300 days before today; reports for an unknown id in all five types;
   one week's schedule to close *)

Reports(ids, pm_types, techs, due_dates) ==
    {<<bfm_no, pm_type, technician, pm_due_date, response>> :
        bfm_no \in ids, pm_type \in pm_types, technician \in techs,
        pm_due_date \in due_dates, response \in BOOLEAN}

CompletionReports ==
    Reports({100}, NormalPmTypes, Range(technicians), {NULL})
    \cup Reports({100}, NormalPmTypes, {1}, {Iso(2025, 2, 1), StartDay - 300})
    \cup Reports({UnknownEquipment}, PmTypes, {1}, {NULL})

Next ==
    \/ \E r \in CompletionReports :
          submit_pm_completion(r[1], r[2], r[3], r[4], r[5])
    \/ generate_weekly_assignments(StartDay, 0)
    \/ EditNextAnnualPm(Iso(2025, 5, 15))

Spec == Init /\ [][Next]_vars

\* the same operations on a catalog in which nothing has been serviced yet
InitFresh ==
    /\ Init
    /\ \A e \in DOMAIN equipment : \A c \in NormalPmTypes :
          equipment[e][LastField(c)] = NULL

SpecFresh == InitFresh /\ [][Next]_vars

----------------------------------------------------------------------------
(* The life of an asset and of the weekly schedule: reports for one equipment
   dated today, Monthly by both technicians, Cannot Find and Run to Failure;
   generation for this week and the week before; finding and reactivating
   assets; the clock moving on by 30 days *)

LifecycleReports ==
    Reports({100}, {"Monthly"}, Range(technicians), {NULL})
    \cup Reports({100}, {"CANNOT FIND", "Run to Failure"}, {1}, {NULL})

NextLifecycle ==
    \/ \E r \in LifecycleReports :
          submit_pm_completion(r[1], r[2], r[3], r[4], r[5])
    \/ \E week_start \in {StartDay, StartDay - 7} :
          generate_weekly_assignments(week_start, 0)
    \/ \E bfm_no \in KnownEquipment : mark_asset_found(bfm_no)
    \/ \E bfm_no \in KnownEquipment : reactivate_asset(bfm_no)
    \/ AdvanceClock(StartDay + 30)

SpecLifecycle == Init /\ [][NextLifecycle]_vars

----------------------------------------------------------------------------
(* The generator on its inputs: catalogs of four equipment in the due states
   its tests tell apart, the roster cut to its first one, two or three names,
   and the weekly target at its value and scaled down to the catalog (1, 3) so
   that the cap binds; generation for this week and the week before, at the
   starting clock and 30 days on *)

GeneratorEquipment == {30, 100, 130, 160}

\* six month only, never serviced
SixMonthOnlyRow == EquipmentRow(FALSE, TRUE, FALSE, NULL, NULL, NULL, NULL, NULL, NULL)

\* monthly only, last done 24 days before the start: next due in 6 days
DueSoonRow ==
    EquipmentRow(TRUE, FALSE, FALSE, StartDay - 24, NULL, NULL,
                 StartDay + 6, NULL, NULL)

\* monthly done 20 days before the start (next due in 10 days), annual done
\* 300 days before the start (next due in 65 days)
PendingRow ==
    EquipmentRow(TRUE, FALSE, TRUE, StartDay - 20, NULL, StartDay - 300,
                 StartDay + 10, NULL, StartDay + 65)

\* annual only, done 300 days before the start: next due in 65 days
AnnualAheadRow ==
    EquipmentRow(FALSE, FALSE, TRUE, NULL, NULL, StartDay - 300,
                 NULL, NULL, StartDay + 65)

\* every cycle enabled and serviced lately
CurrentRow ==
    EquipmentRow(TRUE, TRUE, TRUE, StartDay - 5, StartDay - 100, StartDay - 100,
                 StartDay + 25, StartDay + 80, StartDay + 265)

GeneratorCatalogs ==
    {[e \in GeneratorEquipment |->
        CASE e = 30 -> r30 [] e = 100 -> r100 [] e = 130 -> r130 [] OTHER -> r160] :
        r30 \in {DueSoonRow, CurrentRow, NeverDoneRow},
        r100 \in {NeverDoneRow, PendingRow, ServicedRow},
        r130 \in {SixMonthOnlyRow, AnnualOnlyRow, AnnualAheadRow},
        r160 \in {NeverDoneRow, CurrentRow}}

InitGenerator ==
    /\ equipment \in GeneratorCatalogs
    /\ pm_completions = <<>>
    /\ weekly_pm_schedules = <<>>
    /\ cannot_find_assets = <<>>
    /\ run_to_failure_assets = <<>>
    /\ next_annual_pm_var = NULL
    /\ today = StartDay
    /\ technicians \in {Roster(n) : n \in 1..3}
    /\ weekly_pm_target \in {1, 3, DefaultTarget}
    /\ rollback_journal = <<>>
    /\ clients = [client \in Clients |-> IdleClient(NULL, Idle("init"))]
    /\ result = Idle("init")

NextGenerator ==
    \/ \E week_start \in {StartDay, StartDay - 7} :
          generate_weekly_assignments(week_start, 0)
    \/ AdvanceClock(StartDay + 30)

SpecGenerator == InitGenerator /\ [][NextGenerator]_vars

----------------------------------------------------------------------------
(* Weeks as the "Week Starting" box takes them: the box is a free-text
   combobox, so a schedule can be generated for the Monday 2025-03-03 or for
   the Wednesday 2025-03-05; Monthly reports for one equipment by both
   technicians, dated on days of those weeks *)

WeekStarts == {StartDay, StartDay + 2}

WeekReports ==
    Reports({100}, {"Monthly"}, Range(technicians),
            {NULL, StartDay + 2, StartDay + 6, StartDay + 8})

NextWeeks ==
    \/ \E r \in WeekReports :
          submit_pm_completion(r[1], r[2], r[3], r[4], r[5])
    \/ \E week_start \in WeekStarts :
          generate_weekly_assignments(week_start, 0)

SpecWeeks == Init /\ [][NextWeeks]_vars

----------------------------------------------------------------------------
(* Two application instances, each used by one technician of the roster,
   reporting on one equipment: Monthly reports dated today or ten days
   before, each instance taking its validate and its write step whenever it
   likes *)

ClientReports(client) ==
    Reports({100}, {"Monthly"}, {technicians[client]}, {NULL, StartDay - 10})

NextClients ==
    \/ \E client \in Clients : \E r \in ClientReports(client) :
          submit_validate(client, r[1], r[2], r[3], r[4], r[5])
    \/ \E client \in Clients : submit_write(client)

SpecClients == Init /\ [][NextClients]_vars

----------------------------------------------------------------------------
(* Generation with a storage that can fail: the first or the second INSERT of
   a run raises (database locked, disk full), or none does; around it a
   Monthly and a Cannot Find report for one equipment, and the asset found
   again, which commits on the same connection *)

FailingInserts == {0, 1, 2}

FaultReports == Reports({100}, {"Monthly", "CANNOT FIND"}, {1}, {NULL})

NextFaults ==
    \/ \E failing_insert \in FailingInserts :
          generate_weekly_assignments(StartDay, failing_insert)
    \/ \E r \in FaultReports :
          submit_pm_completion(r[1], r[2], r[3], r[4], r[5])
    \/ \E bfm_no \in KnownEquipment : mark_asset_found(bfm_no)

SpecFaults == Init /\ [][NextFaults]_vars

----------------------------------------------------------------------------
(* DateStandardizer.parse_date_flexible on date strings.  A date string is
   modelled by its form and the numbers written in it: "9/7/49" is
   [form |-> "m/d/yy", year |-> 49, month |-> 9, day |-> 7]. *)

TwoDigitForms == {"m/d/yy", "m-d-yy"}
FourDigitForms == {"m/d/yyyy", "m-d-yyyy"}
CanonicalForm == "yyyy-mm-dd"

DaysInMonth(year, month) ==
    IF month = 2 THEN (IF IsLeap(year) THEN 29 ELSE 28)
    ELSE IF month \in {4, 6, 9, 11} THEN 30 ELSE 31

\* the date exists in the calendar (datetime raises ValueError otherwise)
ValidDate(year, month, day) ==
    /\ month \in 1..12
    /\ day \in 1..DaysInMonth(year, month)

NotParsed == [parsed |-> FALSE, year |-> NULL, month |-> NULL, day |-> NULL]

Parsed(year, month, day) ==
    [parsed |-> TRUE, year |-> year, month |-> month, day |-> day]

\* datetime.strptime with the one format of date_formats that fits the form
\* of the string; %y reads 00..68 as 2000..2068 and 69..99 as 1969..1999
strptime(date_str) ==
    LET year == IF date_str.form \in TwoDigitForms
                THEN (IF date_str.year <= 68 THEN 2000 + date_str.year
                      ELSE 1900 + date_str.year)
                ELSE date_str.year
    IN  IF ValidDate(year, date_str.month, date_str.day)
        THEN Parsed(year, date_str.month, date_str.day)
        ELSE NotParsed

parse_date_flexible(date_str) ==
    LET parsed_date == strptime(date_str)
        year == IF parsed_date.year < 1950
                THEN (IF parsed_date.year < 50 THEN parsed_date.year + 2000
                      ELSE parsed_date.year + 1900)
                ELSE parsed_date.year
    IN  IF ~parsed_date.parsed THEN NotParsed
        ELSE IF date_str.form = CanonicalForm
             THEN parsed_date       \* matched the pattern: returned as it is
             \* replace(year=...) raises ValueError on a 29 February that the
             \* new year does not have; no other format fits the string
             ELSE IF ValidDate(year, parsed_date.month, parsed_date.day)
                  THEN Parsed(year, parsed_date.month, parsed_date.day)
                  ELSE NotParsed

\* a caller hands a stored date string to the parser
ParseDate(date_str) ==
    /\ result' = [Idle("parse") EXCEPT
                     !.outcome = IF parse_date_flexible(date_str).parsed
                                 THEN "parsed" ELSE "not_parseable",
                     !.output = <<date_str, parse_date_flexible(date_str)>>]
    /\ UNCHANGED <<equipment, pm_completions, weekly_pm_schedules, cannot_find_assets,
                   run_to_failure_assets, next_annual_pm_var, today, Settings, clients,
                   rollback_journal>>

DateStrings ==
    [form : TwoDigitForms, year : {0, 25, 49, 50, 68, 69, 99},
     month : {1, 2, 12}, day : {2, 29, 30, 31}]
    \cup [form : FourDigitForms \cup {CanonicalForm},
          year : {1900, 1948, 1949, 1950, 2024, 2025},
          month : {1, 2, 12}, day : {2, 29, 30, 31}]

NextDates == \E date_str \in DateStrings : ParseDate(date_str)

SpecDates == Init /\ [][NextDates]_vars

----------------------------------------------------------------------------
(* Properties of the completion processor *)

Tables == <<equipment, pm_completions, weekly_pm_schedules, cannot_find_assets,
            run_to_failure_assets>>

\* the handler reached COMMIT
Committed(r) == r.op = "submit" /\ r.outcome \in {"verified", "verification_failed"}

\* the cycle lengths and minimum intervals the design states
CycleLength(c) == CASE c = "Monthly" -> 30 [] c = "Six Month" -> 180 [] c = "Annual" -> 365
MinInterval(c) == CASE c = "Monthly" -> 25 [] c = "Six Month" -> 150 [] c = "Annual" -> 300

Abs(n) == IF n < 0 THEN 0 - n ELSE n

\* C1: a completion for an equipment id that is not in the equipment table
\* never commits, for any of the five PM types and either answer to the
\* prompt, and leaves every table exactly as it was.
C1_UnknownEquipmentRejected ==
    [][(result'.op = "submit" /\ result'.bfm_no \notin DOMAIN equipment)
          => (~Committed(result') /\ Tables' = Tables)]_vars

C1_Witness ==
    /\ result.op = "submit"
    /\ result.bfm_no = UnknownEquipment
    /\ result.pm_type = "CANNOT FIND"
    /\ result.outcome = "rolled_back"
    /\ pm_completions # <<>>
    /\ weekly_pm_schedules # <<>>

\* the row a normal report inserts
CompletionRow(r) ==
    [bfm_equipment_no |-> r.bfm_no, pm_type |-> r.pm_type,
     technician_name |-> r.technician, completion_date |-> r.completion_date,
     labor |-> LaborHours]

OpenEntries(schedules, r) ==
    {i \in DOMAIN schedules :
        /\ schedules[i].bfm_equipment_no = r.bfm_no
        /\ schedules[i].pm_type = r.pm_type
        /\ schedules[i].assigned_technician = r.technician
        /\ schedules[i].week_start_date = r.completion_date - (r.completion_date % 7)
        /\ schedules[i].status = "Scheduled"}

\* the newest-inserted completion of each (equipment, cycle) is on an
\* equipment of the catalog whose last date of the cycle is the completion's
NoOrphanCompletion ==
    \A i \in DOMAIN pm_completions :
        LET row == pm_completions[i]
            later == {j \in DOMAIN pm_completions :
                        /\ j > i
                        /\ pm_completions[j].bfm_equipment_no = row.bfm_equipment_no
                        /\ pm_completions[j].pm_type = row.pm_type}
        IN  /\ row.bfm_equipment_no \in DOMAIN equipment
            /\ later = {} =>
                  equipment[row.bfm_equipment_no][LastField(row.pm_type)]
                      = row.completion_date

AllOrNothingStep ==
    (result'.op = "submit" /\ result'.pm_type \in NormalPmTypes) =>
        \/ Tables' = Tables
        \/ /\ pm_completions' = Append(pm_completions, CompletionRow(result'))
           /\ result'.bfm_no \in DOMAIN equipment'
           /\ equipment'[result'.bfm_no][LastField(result'.pm_type)]
                 = result'.completion_date
           /\ OpenEntries(weekly_pm_schedules', result') = {}
           /\ \A i \in OpenEntries(weekly_pm_schedules, result') :
                 weekly_pm_schedules'[i].status = "Completed"

\* C2: a normal completion applies the completion record, the equipment
\* update and the closure of the schedule entry together or not at all, and no
\* completion record exists without its equipment update, also when the
\* transaction fails half-way.
C2_AllOrNothing == []NoOrphanCompletion /\ [][AllOrNothingStep]_vars

C2_Witness ==
    /\ result.op = "submit"
    /\ result.pm_type = "Monthly"
    /\ result.outcome = "rolled_back"
    /\ pm_completions # <<>>

\* C3: a committed completion of one cycle leaves the last and next dates of
\* the two other cycles of that equipment unchanged.
C3_CyclesIndependent ==
    [][(Committed(result') /\ result'.pm_type \in NormalPmTypes) =>
          \A c \in NormalPmTypes \ {result'.pm_type} :
              /\ equipment'[result'.bfm_no][LastField(c)]
                    = equipment[result'.bfm_no][LastField(c)]
              /\ equipment'[result'.bfm_no][NextField(c)]
                    = equipment[result'.bfm_no][NextField(c)]]_vars

\* C4: a committed Monthly or Six Month completion dated d adds exactly one
\* completion record and sets last = d and next = d + 30 (Monthly) or d + 180
\* (Six Month); Monthly on 2025-02-01 gives next_monthly = 2025-03-03.
C4_MonthlySixMonthDates ==
    [][(Committed(result') /\ result'.pm_type \in {"Monthly", "Six Month"}) =>
          LET e == result'.bfm_no
              c == result'.pm_type
              d == result'.completion_date
          IN  /\ pm_completions' = Append(pm_completions, CompletionRow(result'))
              /\ equipment'[e][LastField(c)] = d
              /\ equipment'[e][NextField(c)] = d + CycleLength(c)
              /\ (c = "Monthly" /\ d = Iso(2025, 2, 1))
                    => equipment'[e].next_monthly_pm = Iso(2025, 3, 3)]_vars

C4_Witness ==
    /\ Committed(result)
    /\ result.pm_type = "Monthly"
    /\ result.completion_date = Iso(2025, 2, 1)
    /\ equipment[100].last_monthly_pm = Iso(2025, 2, 1)
    /\ equipment[100].next_monthly_pm = Iso(2025, 3, 3)
    /\ equipment[100].last_annual_pm = Iso(2024, 6, 1)

\* C5: after a committed Annual completion dated d the equipment's next
\* annual date is d + 365 + ((numeric suffix of the id) mod 61) - 30.
C5_AnnualOffset ==
    [][(Committed(result') /\ result'.pm_type = "Annual") =>
          equipment'[result'.bfm_no].next_annual_pm
              = result'.completion_date + 365 + ((result'.bfm_no % 61) - 30)]_vars

\* completions of the report's (equipment, cycle) less than the minimum
\* interval away from the report's date
WithinInterval(bfm_no, pm_type, completion_date) ==
    {i \in DOMAIN pm_completions :
        /\ pm_completions[i].bfm_equipment_no = bfm_no
        /\ pm_completions[i].pm_type = pm_type
        /\ Abs(completion_date - pm_completions[i].completion_date)
              < MinInterval(pm_type)}

DuplicateIssues(issues) == {x \in issues : x.kind = "DUPLICATE"}

ReportDates == {StartDay, Iso(2025, 2, 1), StartDay - 300}

\* C8: validate flags a report, naming the date and technician of a
\* completion of the same (equipment, cycle) within the minimum interval of
\* the report's date, whenever there is one, and raises no minimum-interval
\* reason when there is none.
C8_MinimumIntervalFlag ==
    \A bfm_no \in KnownEquipment, pm_type \in NormalPmTypes,
       technician \in Range(technicians), completion_date \in ReportDates :
        \A recent \in RecentCompletions(DB, bfm_no, pm_type) :
            LET v == validate_pm_completion(DB, recent, bfm_no, pm_type, technician,
                                            completion_date)
                near == WithinInterval(bfm_no, pm_type, completion_date)
            IN  /\ near # {} =>
                      /\ ~v.valid
                      /\ \E x \in DuplicateIssues(v.issues) : \E i \in near :
                            /\ x.date = pm_completions[i].completion_date
                            /\ x.technician = pm_completions[i].technician_name
                /\ near = {} => DuplicateIssues(v.issues) = {}

SameCycle(i, j) ==
    /\ pm_completions[i].bfm_equipment_no = pm_completions[j].bfm_equipment_no
    /\ pm_completions[i].pm_type = pm_completions[j].pm_type

\* C9: any two completion records of the same (equipment, cycle) are dated at
\* least the minimum interval apart.
C9_RecordsApart ==
    \A i, j \in DOMAIN pm_completions :
        (i < j /\ SameCycle(i, j)) =>
            Abs(pm_completions[j].completion_date - pm_completions[i].completion_date)
                >= MinInterval(pm_completions[i].pm_type)

\* C9 as amended: a completion that commits without a minimum-interval flag
\* having been raised (and overridden by the caller) is dated at least the
\* minimum interval after every earlier record of its (equipment, cycle).
C9_UnflaggedRecordsApart ==
    [][(/\ Committed(result')
        /\ result'.pm_type \in NormalPmTypes
        /\ DuplicateIssues(result'.issues) = {}) =>
          \A i \in DOMAIN pm_completions :
              (/\ pm_completions[i].bfm_equipment_no = result'.bfm_no
               /\ pm_completions[i].pm_type = result'.pm_type) =>
                  result'.completion_date - pm_completions[i].completion_date
                      >= MinInterval(result'.pm_type)]_vars

C9_Witness ==
    /\ Committed(result)
    /\ DuplicateIssues(result.issues) = {}
    /\ Len(pm_completions) = 2
    /\ SameCycle(1, 2)
    /\ pm_completions[2].completion_date - pm_completions[1].completion_date = 30

\* C15: starting from a catalog without last dates, the last date of a cycle
\* of an equipment, when present, is not later than the date of the newest
\* completion record of that (equipment, cycle); backdated completions
\* included.
C15_LastNotAfterNewestRecord ==
    \A e \in DOMAIN equipment : \A c \in NormalPmTypes :
        equipment[e][LastField(c)] # NULL =>
            \E i \in DOMAIN pm_completions :
                /\ pm_completions[i].bfm_equipment_no = e
                /\ pm_completions[i].pm_type = c
                /\ equipment[e][LastField(c)] <= pm_completions[i].completion_date

\* a backdated completion after a newer one: the last date is the older date
C15_Witness ==
    /\ Len(pm_completions) = 2
    /\ SameCycle(1, 2)
    /\ pm_completions[1].pm_type = "Monthly"
    /\ pm_completions[2].completion_date < pm_completions[1].completion_date
    /\ equipment[100].last_monthly_pm = pm_completions[2].completion_date
    /\ equipment[100].last_annual_pm = NULL

\* C14: validation comes before any write, and a flagged report is written
\* only after the user chose to proceed: a submission whose report was flagged
\* and whose prompt was answered no changes no table, and a submission that
\* changes a table was either valid or answered yes.
C14_CancelWritesNothing ==
    [][result'.op = "submit" =>
          /\ (~result'.valid /\ ~result'.proceed) => Tables' = Tables
          /\ Tables' # Tables => (result'.valid \/ result'.proceed)
          /\ result'.proceed = FALSE => result'.outcome = "cancelled"]_vars

\* a flagged Monthly report on a known equipment, cancelled, with rows in the
\* tables that the transaction would have changed
C14_Witness ==
    /\ result.op = "submit"
    /\ result.bfm_no = 100
    /\ result.pm_type = "Monthly"
    /\ ~result.valid
    /\ ~result.proceed
    /\ result.outcome = "cancelled"
    /\ \E i \in OpenEntries(weekly_pm_schedules, result) : TRUE
    /\ pm_completions # <<>>

----------------------------------------------------------------------------
(* Properties of the asset life cycle and of the weekly schedule *)

\* a Run to Failure completion of the equipment is on record: reactivate_asset
\* is the only statement that deletes from run_to_failure_assets
RunToFailureOnRecord(bfm_no) ==
    \E i \in DOMAIN run_to_failure_assets :
        run_to_failure_assets[i].bfm_equipment_no = bfm_no

AllCyclesDisabled(bfm_no) ==
    /\ ~equipment[bfm_no].monthly_pm
    /\ ~equipment[bfm_no].six_month_pm
    /\ ~equipment[bfm_no].annual_pm

\* C6: after a committed Run to Failure completion the equipment has status
\* Run to Failure and its three cycles disabled; as long as it is not
\* reactivated by hand its cycles stay disabled, whatever is completed, found
\* or generated, and no generation puts it on a schedule.
C6_RunToFailureLeavesSchedule ==
    /\ (Committed(result) /\ result.pm_type = "Run to Failure") =>
          /\ equipment[result.bfm_no].status = "Run to Failure"
          /\ AllCyclesDisabled(result.bfm_no)
    /\ \A bfm_no \in KnownEquipment :
          RunToFailureOnRecord(bfm_no) => AllCyclesDisabled(bfm_no)
    /\ result.op = "generate" =>
          \A i \in DOMAIN result.output :
              ~RunToFailureOnRecord(result.output[i].bfm_equipment_no)

\* a generation for a catalog in which the run-to-failure equipment was
\* reported missing and found again, so that its status is Active
C6_Witness ==
    /\ result.op = "generate"
    /\ result.output # <<>>
    /\ RunToFailureOnRecord(100)
    /\ equipment[100].status = "Active"

\* C7: a committed Cannot Find completion inserts one missing-asset record
\* and sets the equipment's status to Missing; no PM date, no cycle flag, no
\* completion record, no schedule entry and no run-to-failure record changes.
C7_CannotFindFrame ==
    [][(Committed(result') /\ result'.pm_type = "CANNOT FIND") =>
          /\ cannot_find_assets' =
                Append(cannot_find_assets,
                       [bfm_equipment_no |-> result'.bfm_no,
                        technician_name |-> result'.technician,
                        report_date |-> result'.completion_date,
                        status |-> "Missing"])
          /\ equipment' = [equipment EXCEPT ![result'.bfm_no].status = "Missing"]
          /\ UNCHANGED <<pm_completions, weekly_pm_schedules,
                         run_to_failure_assets>>]_vars

C7_Witness ==
    /\ Committed(result)
    /\ result.pm_type = "CANNOT FIND"
    /\ equipment[100].status = "Missing"
    /\ equipment[100].monthly_pm
    /\ equipment[100].last_monthly_pm # NULL
    /\ pm_completions # <<>>
    /\ \E i \in DOMAIN weekly_pm_schedules :
          /\ weekly_pm_schedules[i].bfm_equipment_no = 100
          /\ weekly_pm_schedules[i].status = "Scheduled"

\* C10: there is at most one schedule entry per (week start, equipment, cycle).
C10_OneEntryPerKey ==
    \A i, j \in DOMAIN weekly_pm_schedules :
        (/\ weekly_pm_schedules[i].week_start_date = weekly_pm_schedules[j].week_start_date
         /\ weekly_pm_schedules[i].bfm_equipment_no = weekly_pm_schedules[j].bfm_equipment_no
         /\ weekly_pm_schedules[i].pm_type = weekly_pm_schedules[j].pm_type)
            => i = j

\* a generation that replaced a week in which an entry had been completed,
\* next to the entries of another week
C10_Witness ==
    /\ result.op = "generate"
    /\ Len(result.output) = 2
    /\ Len(weekly_pm_schedules) = 4
    /\ pm_completions # <<>>
    /\ \E i \in DOMAIN weekly_pm_schedules :
          weekly_pm_schedules[i].status = "Completed"

\* the keys (week start, equipment, cycle) of the entries with a status
EntryKeys(schedules, status) ==
    {<<schedules[i].week_start_date, schedules[i].bfm_equipment_no,
       schedules[i].pm_type>> :
        i \in {j \in DOMAIN schedules : schedules[j].status = status}}

\* C13: Completed is terminal for a schedule entry: once the entry of a key
\* (week start, equipment, cycle) is Completed, no later completion and no
\* regeneration of the week makes an entry of that key Scheduled again or
\* removes it.
C13_CompletedIsTerminal ==
    [][EntryKeys(weekly_pm_schedules, "Completed")
          \subseteq EntryKeys(weekly_pm_schedules', "Completed")]_vars

----------------------------------------------------------------------------
(* Properties of the weekly assignment generator *)

WeekEntries(schedules, week_start) ==
    SelectSeq(schedules, LAMBDA row : row.week_start_date = week_start)

\* the schedule table after one more generation for the week of the last one
Regenerated ==
    LET week_start == result.completion_date
        pm_assignments == PmAssignments(equipment, today)
        total_pms == Min(weekly_pm_target, Len(pm_assignments))
    IN  ClearWeek(weekly_pm_schedules, week_start)
            \o Distribute(pm_assignments, week_start, total_pms, 0, <<>>)

RegenerationIsFixpoint ==
    result.op = "generate" =>
        /\ WeekEntries(Regenerated, result.completion_date)
              = WeekEntries(weekly_pm_schedules, result.completion_date)
        /\ WeekEntries(weekly_pm_schedules, result.completion_date) = result.output
        /\ Len(Regenerated) = Len(weekly_pm_schedules)

SecondRunStep ==
    (/\ result.op = "generate"
     /\ result'.op = "generate"
     /\ result'.completion_date = result.completion_date) =>
        /\ WeekEntries(weekly_pm_schedules', result.completion_date)
              = WeekEntries(weekly_pm_schedules, result.completion_date)
        /\ Len(weekly_pm_schedules') = Len(weekly_pm_schedules)

\* C11: generating the same week twice in a row, with the same catalog,
\* roster, target and clock, leaves exactly the entries of one run for that
\* week (same equipment, cycle, technician and scheduled date, in the same
\* number), none of the earlier entries of the week surviving beside them.
C11_RegenerationIdempotent == []RegenerationIsFixpoint /\ [][SecondRunStep]_vars

\* a generation that replaced the entries an earlier generation of the same
\* week had made at another clock, beside the entries of another week
C11_Witness ==
    /\ result.op = "generate"
    /\ result.completion_date = StartDay
    /\ today = StartDay + 30
    /\ Len(result.output) = 3
    /\ Len(weekly_pm_schedules) = 5
    /\ weekly_pm_target = 3
    /\ Len(technicians) = 2

CountFor(output, technician) ==
    Cardinality({i \in DOMAIN output : output[i].assigned_technician = technician})

\* C12: of the T entries a generation creates for a roster of N technicians,
\* each technician gets T div N or T div N + 1, exactly the first T mod N of
\* the roster get the extra one, the counts sum to T, and a roster of one
\* gets all T.
C12_RoundRobin ==
    result.op = "generate" =>
        LET T == Len(result.output)
            N == Len(technicians)
        IN  /\ \A k \in 1..N :
                  CountFor(result.output, technicians[k])
                      = (T \div N) + (IF k <= T % N THEN 1 ELSE 0)
            /\ \A i \in DOMAIN result.output :
                  result.output[i].assigned_technician \in Range(technicians)
            /\ N = 1 => CountFor(result.output, technicians[1]) = T

\* four entries among three technicians: 2, 1, 1
C12_Witness ==
    /\ result.op = "generate"
    /\ Len(technicians) = 3
    /\ Len(result.output) = 4
    /\ CountFor(result.output, technicians[1]) = 2
    /\ CountFor(result.output, technicians[3]) = 1

CycleEnabled(row, pm_type) ==
    CASE pm_type = "Monthly" -> row.monthly_pm
      [] pm_type = "Six Month" -> row.six_month_pm
      [] pm_type = "Annual" -> row.annual_pm
      [] OTHER -> FALSE

\* C16: a generation creates no entry for an equipment whose status is not
\* Active, nor for a cycle that is disabled on the equipment.
C16_OnlyActiveEnabled ==
    result.op = "generate" =>
        \A i \in DOMAIN result.output :
            LET row == equipment[result.output[i].bfm_equipment_no]
            IN  /\ row.status = "Active"
                /\ CycleEnabled(row, result.output[i].pm_type)

\* a generation that left out a missing equipment whose cycles are enabled
\* and never done
C16_Witness ==
    /\ result.op = "generate"
    /\ result.output # <<>>
    /\ equipment[100].status = "Missing"
    /\ equipment[100].monthly_pm
    /\ equipment[100].last_monthly_pm = NULL

EntriesOf(output, bfm_no) ==
    {i \in DOMAIN output : output[i].bfm_equipment_no = bfm_no}

\* the generator's own test of a cycle being due: never done, or overdue by
\* is_pm_overdue
TreatedAsDue(last_pm_date, frequency_days) ==
    last_pm_date = NULL \/ is_pm_overdue(last_pm_date, frequency_days, today)

DaysDelta(last_date, next_date, cycle_length) ==
    (IF next_date # NULL THEN next_date ELSE last_date + cycle_length) - today

NeverDone(last_date, next_date) == last_date = NULL /\ next_date = NULL

DueForScheduling(last_date, next_date, cycle_length) ==
    \/ NeverDone(last_date, next_date)
    \/ DaysDelta(last_date, next_date, cycle_length) <= 14

CycleDue(row, c) ==
    DueForScheduling(row[LastField(c)], row[NextField(c)], CycleLength(c))

HasEntry(output, bfm_no, pm_type) ==
    \E i \in EntriesOf(output, bfm_no) : output[i].pm_type = pm_type

\* C18: an Active equipment whose Six Month cycle is enabled and due and
\* whose Monthly cycle is not due (here: disabled, as is its Annual cycle)
\* gets a Six Month entry when the weekly cap leaves room.
C18_SixMonthScheduled ==
    (result.op = "generate" /\ Len(result.output) < weekly_pm_target) =>
        \A e \in DOMAIN equipment :
            (/\ equipment[e].status = "Active"
             /\ equipment[e].six_month_pm
             /\ CycleDue(equipment[e], "Six Month")
             /\ ~equipment[e].monthly_pm
             /\ ~equipment[e].annual_pm) =>
                HasEntry(result.output, e, "Six Month")

\* the candidates of a generation: the Active equipment the loop assigns a PM
Candidates ==
    {e \in DOMAIN equipment :
        equipment[e].status = "Active" /\ AssignedPm(equipment[e], today) # ""}

\* category of a candidate's assigned cycle by the Due-Date Calculator
NeverDoneOrOverdue(e) ==
    LET c == AssignedPm(equipment[e], today)
        row == equipment[e]
    IN  \/ NeverDone(row[LastField(c)], row[NextField(c)])
        \/ DaysDelta(row[LastField(c)], row[NextField(c)], CycleLength(c)) < 0

DueSoon(e) ==
    LET c == AssignedPm(equipment[e], today)
        row == equipment[e]
    IN  /\ ~NeverDone(row[LastField(c)], row[NextField(c)])
        /\ DaysDelta(row[LastField(c)], row[NextField(c)], CycleLength(c)) \in 0..7

\* C19: a generation creates exactly min(weekly target, number of
\* candidates) entries, and when the candidates exceed the target, no
\* never-done or overdue candidate is left out while a due-soon candidate is
\* scheduled.
C19_CapPrioritizes ==
    result.op = "generate" =>
        /\ Len(result.output) = Min(weekly_pm_target, Cardinality(Candidates))
        /\ Cardinality(Candidates) > weekly_pm_target =>
              ~ \E left_out \in Candidates, scheduled \in Candidates :
                    /\ EntriesOf(result.output, left_out) = {}
                    /\ NeverDoneOrOverdue(left_out)
                    /\ EntriesOf(result.output, scheduled) # {}
                    /\ DueSoon(scheduled)

\* C20: the generator treats an enabled cycle as due exactly when the
\* Due-Date Calculator does: with room under the cap, an Active equipment
\* with Monthly enabled has a Monthly entry exactly when its Monthly cycle is
\* due for scheduling, and one with Monthly disabled and Annual enabled has an
\* Annual entry exactly when its Annual cycle is due for scheduling.
C20_DueAsCalculator ==
    (result.op = "generate" /\ Len(result.output) < weekly_pm_target) =>
        \A e \in DOMAIN equipment :
            equipment[e].status = "Active" =>
                /\ equipment[e].monthly_pm =>
                      (HasEntry(result.output, e, "Monthly")
                          <=> CycleDue(equipment[e], "Monthly"))
                /\ (~equipment[e].monthly_pm /\ equipment[e].annual_pm) =>
                      (HasEntry(result.output, e, "Annual")
                          <=> CycleDue(equipment[e], "Annual"))

----------------------------------------------------------------------------
(* Further properties of the completion processor and of the validator *)

\* C21: a committed normal completion by technician t dated d for
\* (equipment e, cycle c) sets to Completed, with d and the labor time,
\* exactly the Scheduled entries of (week of d, e, c) assigned to t; every
\* other entry stays as it is; and a report for a known equipment that is
\* valid or confirmed commits whether or not an entry matches.
C21_ClosesExactlyTheMatch ==
    [][(result'.op = "submit" /\ result'.pm_type \in NormalPmTypes) =>
          /\ Committed(result') =>
                /\ Len(weekly_pm_schedules') = Len(weekly_pm_schedules)
                /\ \A i \in DOMAIN weekly_pm_schedules :
                      weekly_pm_schedules'[i] =
                          IF i \in OpenEntries(weekly_pm_schedules, result')
                          THEN [weekly_pm_schedules[i] EXCEPT
                                   !.status = "Completed",
                                   !.completion_date = result'.completion_date,
                                   !.labor_hours = LaborHours]
                          ELSE weekly_pm_schedules[i]
          /\ (result'.bfm_no \in DOMAIN equipment /\ result'.proceed)
                => Committed(result')]_vars

\* a Monthly completion by the first technician that committed while the
\* Monthly entry of the equipment, assigned to the second technician, and the
\* entry of another equipment stayed Scheduled
C21_Witness ==
    /\ Committed(result)
    /\ result.pm_type = "Monthly"
    /\ result.technician = 1
    /\ \E i \in DOMAIN weekly_pm_schedules :
          /\ weekly_pm_schedules[i].bfm_equipment_no = 100
          /\ weekly_pm_schedules[i].pm_type = "Monthly"
          /\ weekly_pm_schedules[i].assigned_technician = 2
          /\ weekly_pm_schedules[i].week_start_date = get_week_start(result.completion_date)
          /\ weekly_pm_schedules[i].status = "Scheduled"
    /\ \E i \in DOMAIN weekly_pm_schedules :
          /\ weekly_pm_schedules[i].bfm_equipment_no = 30
          /\ weekly_pm_schedules[i].status = "Scheduled"

IssuesOfKind(issues, kind) == {x \in issues : x.kind = kind}

\* C22: validate raises the same-technician reason exactly when a completion
\* record by the same technician on the same equipment, of any cycle, is dated
\* in the 7 days up to the report's date; a record dated after the report's
\* date or more than 7 days before it does not raise it.
C22_SameTechnicianWindow ==
    \A bfm_no \in KnownEquipment, pm_type \in NormalPmTypes,
       technician \in Range(technicians), completion_date \in ReportDates :
        \A recent \in RecentCompletions(DB, bfm_no, pm_type) :
            LET v == validate_pm_completion(DB, recent, bfm_no, pm_type, technician,
                                            completion_date)
                in_window ==
                    {i \in DOMAIN pm_completions :
                        /\ pm_completions[i].bfm_equipment_no = bfm_no
                        /\ pm_completions[i].technician_name = technician
                        /\ pm_completions[i].completion_date >= completion_date - 7
                        /\ pm_completions[i].completion_date <= completion_date}
            IN  IssuesOfKind(v.issues, "SAME_TECHNICIAN") # {} <=> in_window # {}

\* completion records of a cycle on the equipment less than n days away from
\* the date
RecordsNear(bfm_no, pm_type, completion_date, n) ==
    {i \in DOMAIN pm_completions :
        /\ pm_completions[i].bfm_equipment_no = bfm_no
        /\ pm_completions[i].pm_type = pm_type
        /\ Abs(completion_date - pm_completions[i].completion_date) < n}

\* C23: validate of an Annual report returns a reason when a Monthly
\* completion record on the same equipment lies within 7 days of the report's
\* date, and validate of a Monthly report returns a reason when an Annual
\* completion record on the same equipment lies within 30 days of it.
C23_CrossCycleFlag ==
    \A bfm_no \in KnownEquipment, technician \in Range(technicians),
       completion_date \in ReportDates :
        /\ RecordsNear(bfm_no, "Monthly", completion_date, 7) # {} =>
              \A recent \in RecentCompletions(DB, bfm_no, "Annual") :
                  ~validate_pm_completion(DB, recent, bfm_no, "Annual", technician,
                                          completion_date).valid
        /\ RecordsNear(bfm_no, "Annual", completion_date, 30) # {} =>
              \A recent \in RecentCompletions(DB, bfm_no, "Monthly") :
                  ~validate_pm_completion(DB, recent, bfm_no, "Monthly", technician,
                                          completion_date).valid

\* C24: validate returns valid, with no reason, whenever the minimum-interval,
\* same-technician, cross-cycle and existence/status checks do not apply; an
\* ad-hoc Monthly or Annual report with no schedule entry in its week is not
\* flagged for that.
C24_AdHocNotFlagged ==
    \A bfm_no \in KnownEquipment, pm_type \in NormalPmTypes,
       technician \in Range(technicians), completion_date \in ReportDates :
        \A recent \in RecentCompletions(DB, bfm_no, pm_type) :
            LET v == validate_pm_completion(DB, recent, bfm_no, pm_type, technician,
                                            completion_date)
                checks == {"DUPLICATE", "SAME_TECHNICIAN", "NOT_FOUND", "STATUS"}
            IN  /\ (\A x \in v.issues : x.kind \notin checks) =>
                      (v.valid /\ v.issues = {})
                /\ IssuesOfKind(v.issues, "NOT_SCHEDULED") = {}

\* C27: every completion that commits, of any of the five PM types, passes
\* the verification after the commit; the handler never reports a failed
\* verification of a state that is what the report asked for.
C27_CommittedIsVerified ==
    Committed(result) => result.outcome = "verified"

\* C28: the last date of a cycle of an equipment is the date of the newest
\* completion record of that (equipment, cycle); a completion dated before a
\* recorded one does not move the last and the next date back.
C28_LastIsNewestRecord ==
    /\ \A e \in DOMAIN equipment : \A c \in NormalPmTypes :
          \A i \in DOMAIN pm_completions :
              (/\ pm_completions[i].bfm_equipment_no = e
               /\ pm_completions[i].pm_type = c) =>
                  equipment[e][LastField(c)] >= pm_completions[i].completion_date

\* C29: whatever day a generated week starts on, a committed completion of
\* an entry's (equipment, cycle) by its assigned technician, dated on a day
\* from the week's start to six days after it, turns the entry from Scheduled
\* to Completed.
C29_CompletionClosesWeekEntry ==
    [][(Committed(result') /\ result'.pm_type \in NormalPmTypes) =>
          \A i \in DOMAIN weekly_pm_schedules :
              (/\ weekly_pm_schedules[i].status = "Scheduled"
               /\ weekly_pm_schedules[i].bfm_equipment_no = result'.bfm_no
               /\ weekly_pm_schedules[i].pm_type = result'.pm_type
               /\ weekly_pm_schedules[i].assigned_technician = result'.technician
               /\ result'.completion_date - weekly_pm_schedules[i].week_start_date
                     \in 0..6) =>
                  /\ i \in DOMAIN weekly_pm_schedules'
                  /\ weekly_pm_schedules'[i].status = "Completed"]_vars

----------------------------------------------------------------------------
(* Properties of a generation that fails *)

\* C26: a generation that fails after its DELETE leaves the entries of its
\* week exactly as they were before the call, and the commit of a later
\* operation (an asset marked found) leaves the schedule table as it was
\* before the failed generation.
C26_GenerationIsAtomic ==
    [][/\ (result'.op = "generate" /\ result'.outcome = "failed") =>
              WeekEntries(weekly_pm_schedules', result'.completion_date)
                  = WeekEntries(weekly_pm_schedules, result'.completion_date)
       /\ (rollback_journal # <<>> /\ result'.op = "mark_found") =>
              weekly_pm_schedules' = rollback_journal[1]]_vars

----------------------------------------------------------------------------
(* Properties of reports from two application instances *)

\* C30: when the last reports of two instances are both committed, are for the
\* same equipment and cycle and are dated less than the cycle's minimum
\* interval apart, the validation of at least one of them raised the
\* minimum-interval duplicate, however their validate and write steps were
\* interleaved.
C30_ConcurrentDuplicateFlagged ==
    \A c1 \in Clients : \A c2 \in Clients \ {c1} :
        LET r1 == clients[c1].result
            r2 == clients[c2].result
        IN  (/\ Committed(r1) /\ Committed(r2)
             /\ r1.pm_type \in NormalPmTypes
             /\ r1.bfm_no = r2.bfm_no /\ r1.pm_type = r2.pm_type
             /\ Abs(r1.completion_date - r2.completion_date)
                    < MinInterval(r1.pm_type)) =>
                IssuesOfKind(r1.issues \cup r2.issues, "DUPLICATE") # {}

----------------------------------------------------------------------------
(* Properties of the date parser *)

\* C25: for every date string the parser accepts, a two-digit year yy gives
\* the year 2000 + yy when yy < 50 and 1900 + yy when yy >= 50, and a
\* four-digit year is kept.
C25_TwoDigitYearPivot ==
    (result.op = "parse" /\ result.outcome = "parsed") =>
        LET date_str == result.output[1]
            canonical == result.output[2]
        IN  canonical.year =
                IF date_str.form \in TwoDigitForms
                THEN (IF date_str.year < 50 THEN 2000 + date_str.year
                      ELSE 1900 + date_str.year)
                ELSE date_str.year

====
